---------------------------- MODULE Spec2Model ----------------------------
(***************************************************************************)
(* Model of calc.c: the tokenizer, the recursive-descent parser/evaluator  *)
(* and eval_buffer.  One behaviour is one call of eval_buffer on a buffer  *)
(* src.  The recursion of the parser is an explicit call stack; advance()  *)
(* hands control to the lexer, whose loops run one iteration per step.     *)
(*                                                                         *)
(* A C double is modelled by the exact value it stands for: a pair <<n,m>> *)
(* with m > 0 is the rational n/m in lowest terms, <<1,0>> is +infinity,   *)
(* <<-1,0>> is -infinity and <<0,0>> is NaN.  Rounding and the sign of a   *)
(* zero are not modelled.  A long long is an integer: the values the       *)
(* buffers of the model reach are far from the ends of its 64 bits.        *)
(*                                                                         *)
(* toks and fault are history variables: they record what the program did  *)
(* and no step of the program reads them.                                  *)
(***************************************************************************)
EXTENDS Integers, Sequences, FiniteSets, TLC

(***************************************************************************)
(* Bounds of the model.                                                    *)
(***************************************************************************)
\* longest buffer drawn from the whole alphabet
MaxLen == 3
\* most tokens in a buffer drawn from the grammar
MaxToks == 5
\* longest buffer drawn from the whole alphabet when termination is checked
FairLen == 2

(***************************************************************************)
(* Characters.                                                             *)
(***************************************************************************)
Digit == {"0", "1", "2", "3", "4", "5", "6", "7", "8", "9"}

DigitVal(c) ==
  CASE c = "0" -> 0 [] c = "1" -> 1 [] c = "2" -> 2 [] c = "3" -> 3
    [] c = "4" -> 4 [] c = "5" -> 5 [] c = "6" -> 6 [] c = "7" -> 7
    [] c = "8" -> 8 [] c = "9" -> 9

\* the characters skip_ws_and_comments treats as white space
IsSpace(c) == c \in {" ", "\t", "\r", "\n"}

\* the characters the buffers of the model are made of; "?" stands for any
\* character next_token does not know
Alphabet == {"0", "2", ".", "+", "-", "*", "/", "(", ")", "\n", "#", "?"}

(***************************************************************************)
(* Doubles.                                                                *)
(***************************************************************************)
Abs(x) == IF x < 0 THEN -x ELSE x
Sgn(x) == IF x < 0 THEN -1 ELSE IF x > 0 THEN 1 ELSE 0

RECURSIVE GCD(_, _)
GCD(a, b) == IF b = 0 THEN a ELSE GCD(b, a % b)

\* the double n/m
Rat(n, m) ==
  IF m = 0 THEN <<Sgn(n), 0>>
  ELSE LET g == GCD(Abs(n), Abs(m))
       IN  <<(Sgn(m) * n) \div g, Abs(m) \div g>>

DZero == <<0, 1>>
DOne  == <<1, 1>>
DNaN  == <<0, 0>>
DInf  == <<1, 0>>

DFinite(a) == a[2] # 0
DInteger(a) == a[2] = 1

\* (double)x for a long long x
DOfInt(x) == <<x, 1>>

DAdd(a, b) ==
  IF ~DFinite(a) /\ a = b THEN a
  ELSE Rat(a[1] * b[2] + b[1] * a[2], a[2] * b[2])
DNeg(a) == <<-a[1], a[2]>>
DSub(a, b) == DAdd(a, DNeg(b))
DMul(a, b) == Rat(a[1] * b[1], a[2] * b[2])
\* a / b for a b that is not zero
DDiv(a, b) == Rat(a[1] * b[2] * Sgn(b[1]), a[2] * Abs(b[1]))
\* a < b for two finite doubles
DLess(a, b) == a[1] * b[2] < b[1] * a[2]
DAbs(a) == <<Abs(a[1]), a[2]>>

\* b * b * ... * b, k times
RECURSIVE DPowNat(_, _)
DPowNat(b, k) == IF k = 0 THEN DOne ELSE DMul(b, DPowNat(b, k - 1))

\* pow(b, e) of <math.h>.  A positive finite base other than 1 raised to a
\* finite exponent that is no whole number has no rational value: the model
\* keeps it as the term <<"pow", b, e>>.
pow(b, e) ==
  IF e = DZero \/ b = DOne THEN DOne
  ELSE IF b = DNaN \/ e = DNaN THEN DNaN
  ELSE IF DFinite(e) /\ DInteger(e) THEN
    IF e[1] > 0 THEN DPowNat(b, e[1])
    ELSE IF b = DZero THEN DInf
    ELSE DDiv(DOne, DPowNat(b, -e[1]))
  ELSE IF ~DFinite(e) THEN
    \* e is +infinity or -infinity
    IF DAbs(b) = DOne THEN DOne
    ELSE IF (DFinite(b) /\ DLess(DAbs(b), DOne)) = (e = DInf) THEN DZero
    ELSE DInf
  ELSE
    \* e is finite and no whole number
    IF b = DZero \/ ~DFinite(b) THEN
      IF (b = DZero) = (e[1] > 0) THEN DZero ELSE DInf
    ELSE IF b[1] < 0 THEN DNaN
    ELSE <<"pow", b, e>>

(***************************************************************************)
(* Value.  The field that is_float does not select is never read by the    *)
(* program; the model holds a zero there.                                  *)
(***************************************************************************)
make_int(x) == [is_float |-> FALSE, i |-> x, d |-> DZero]
make_double(x) == [is_float |-> TRUE, i |-> 0, d |-> x]

is_zero(v) == IF v.is_float THEN v.d = DZero ELSE v.i = 0

\* a.is_float ? a.d : a.i, converted to double by the arithmetic
AsDouble(a) == IF a.is_float THEN a.d ELSE DOfInt(a.i)

v_add(a, b) ==
  IF a.is_float \/ b.is_float THEN make_double(DAdd(AsDouble(a), AsDouble(b)))
  ELSE make_int(a.i + b.i)
v_sub(a, b) ==
  IF a.is_float \/ b.is_float THEN make_double(DSub(AsDouble(a), AsDouble(b)))
  ELSE make_int(a.i - b.i)
v_mul(a, b) ==
  IF a.is_float \/ b.is_float THEN make_double(DMul(AsDouble(a), AsDouble(b)))
  ELSE make_int(a.i * b.i)

\* v_div with the error put one character after the "/"
v_div_m(a, b, err, slash_pos) ==
  IF is_zero(b)
  THEN [v |-> make_int(0), err_pos |-> IF err = 0 THEN slash_pos + 1 ELSE err]
  ELSE [v |-> make_double(DDiv(AsDouble(a), AsDouble(b))), err_pos |-> err]

\* v_div returns the value and the new *err_pos
v_div(a, b, err, slash_pos) ==
  IF is_zero(b)
  THEN [v |-> make_int(0), err_pos |-> IF err = 0 THEN slash_pos ELSE err]
  ELSE [v |-> make_double(DDiv(AsDouble(a), AsDouble(b))), err_pos |-> err]

v_pow(base, exp) == make_double(pow(AsDouble(base), AsDouble(exp)))

\* the negation in parse_unary
Negate(v) == IF v.is_float THEN make_double(DNeg(v.d)) ELSE make_int(-v.i)


(***************************************************************************)
(* Tokens.                                                                 *)
(***************************************************************************)
TokType == {"T_EOF", "T_NUM", "T_PLUS", "T_MINUS", "T_STAR", "T_SLASH",
            "T_POW", "T_LPAREN", "T_RPAREN", "T_INVALID"}

\* a Token after memset(&x, 0, sizeof x), with its type and position set
make_simple(t, p) ==
  [type |-> t, start_pos |-> p, is_float |-> FALSE, i |-> 0, d |-> DZero]

\* the Token of a zeroed Scanner
ZeroToken == make_simple("T_EOF", 0)

(***************************************************************************)
(* strtod and strtoll on the decimal literals the alphabet can spell:      *)
(* digits, then an optional "." and digits, with a digit somewhere.  The   *)
(* alphabet has no "e", "E" or "x", so no exponent and no hexadecimal form *)
(* can start in a buffer of the model.                                     *)
(***************************************************************************)
\* the number of digits of s from index k (1-based) on
RECURSIVE DigitRun(_, _)
DigitRun(s, k) ==
  IF k <= Len(s) /\ s[k] \in Digit THEN 1 + DigitRun(s, k + 1) ELSE 0

\* the value of the digit string s as a natural number
RECURSIVE DigitsVal(_)
DigitsVal(s) ==
  IF s = <<>> THEN 0
  ELSE 10 * DigitsVal(SubSeq(s, 1, Len(s) - 1)) + DigitVal(s[Len(s)])

RECURSIVE Pow10(_)
Pow10(k) == IF k = 0 THEN 1 ELSE 10 * Pow10(k - 1)

\* strtod(src + idx0, &end): the characters used (0: no conversion) and dv
strtod(s, i0) ==
  LET ni == DigitRun(s, i0 + 1)
      dot == i0 + ni + 1 <= Len(s) /\ s[i0 + ni + 1] = "."
      nf == IF dot THEN DigitRun(s, i0 + ni + 2) ELSE 0
      ip == DigitsVal(SubSeq(s, i0 + 1, i0 + ni))
      fp == DigitsVal(SubSeq(s, i0 + ni + 2, i0 + ni + 1 + nf))
  IN  IF ni + nf = 0 THEN [used |-> 0, dv |-> DZero]
      ELSE IF dot THEN [used |-> ni + 1 + nf,
                        dv |-> Rat(ip * Pow10(nf) + fp, Pow10(nf))]
      ELSE [used |-> ni, dv |-> DOfInt(ip)]

\* the decimal digits of LLONG_MAX = 9223372036854775807
LLongMaxDigits == <<"9", "2", "2", "3", "3", "7", "2", "0", "3", "6", "8", "5",
                    "4", "7", "7", "5", "8", "0", "7">>

RECURSIVE StripZeros(_)
StripZeros(s) ==
  IF s # <<>> /\ s[1] = "0" THEN StripZeros(Tail(s)) ELSE s

\* s > t for two digit strings of the same length
RECURSIVE DigitsGreater(_, _)
DigitsGreater(s, t) ==
  IF s = <<>> THEN FALSE
  ELSE IF s[1] # t[1] THEN DigitVal(s[1]) > DigitVal(t[1])
  ELSE DigitsGreater(Tail(s), Tail(t))

\* strtoll(text, NULL, 10) of a digit string sets errno to ERANGE
ERANGE(text) ==
  LET t == StripZeros(text)
  IN  \/ Len(t) > Len(LLongMaxDigits)
      \/ Len(t) = Len(LLongMaxDigits) /\ DigitsGreater(t, LLongMaxDigits)

(***************************************************************************)
(* scan_number and next_token (after skip_ws_and_comments): the token and  *)
(* the scanner's new idx0 and pos.                                         *)
(***************************************************************************)
scan_number(s, i0, p) ==
  LET r == strtod(s, i0)
      text == SubSeq(s, i0 + 1, i0 + r.used)
      saw_dot_or_exp == \E k \in 1..r.used : text[k] \in {".", "e", "E"}
      num == [type |-> "T_NUM", start_pos |-> p, is_float |-> FALSE,
              i |-> 0, d |-> DZero]
  IN  IF r.used = 0
      THEN [tok |-> make_simple("T_INVALID", p), idx0 |-> i0, pos |-> p]
      ELSE [tok |-> IF saw_dot_or_exp \/ ERANGE(text)
                    THEN [num EXCEPT !.is_float = TRUE, !.d = r.dv]
                    ELSE [num EXCEPT !.i = DigitsVal(text), !.d = r.dv],
            idx0 |-> i0 + r.used, pos |-> p + r.used]

\* one character consumed, a token of type t
OneChar(t, i0, p) == [tok |-> make_simple(t, p), idx0 |-> i0 + 1, pos |-> p + 1]

next_token(s, i0, p) ==
  IF i0 >= Len(s) THEN [tok |-> make_simple("T_EOF", p), idx0 |-> i0, pos |-> p]
  ELSE LET c == s[i0 + 1]
       IN  IF c \in Digit \/ c = "." THEN scan_number(s, i0, p)
           ELSE IF c = "+" THEN OneChar("T_PLUS", i0, p)
           ELSE IF c = "-" THEN OneChar("T_MINUS", i0, p)
           ELSE IF c = "(" THEN OneChar("T_LPAREN", i0, p)
           ELSE IF c = ")" THEN OneChar("T_RPAREN", i0, p)
           ELSE IF c = "/" THEN OneChar("T_SLASH", i0, p)
           ELSE IF c = "*" THEN
             IF i0 + 1 < Len(s) /\ s[i0 + 2] = "*"
             THEN [tok |-> make_simple("T_POW", p), idx0 |-> i0 + 2, pos |-> p + 2]
             ELSE OneChar("T_STAR", i0, p)
           ELSE OneChar("T_INVALID", i0, p)

\* set_error without its test: a later error overwrites the first
set_error_m(err, p) == p

\* set_error: the new S->err_pos
set_error(err, p) == IF err = 0 THEN p ELSE err

(***************************************************************************)
(* The buffers eval_buffer is called on: every string over Alphabet of at  *)
(* most MaxLen characters, and every expression of the grammar of at most  *)
(* MaxToks tokens whose literals are in Literals.                          *)
(***************************************************************************)
Literals == {<<"0">>, <<"2">>, <<".", "0">>}

Strings(n) == UNION {[1..m -> Alphabet] : m \in 0..n}

\* the expressions of exactly k tokens over the literals lits, by grammar
\* rule, given those of fewer tokens in tab
GrammarRow(tab, k, lits) ==
  LET primary == (IF k = 1 THEN lits ELSE {}) \cup
                 (IF k >= 3
                  THEN {<<"(">> \o e \o <<")">> : e \in tab[k - 2].expr}
                  ELSE {})
      unary == primary \cup
               (IF k >= 2
                THEN {<<sg>> \o u : sg \in {"+", "-"}, u \in tab[k - 1].unary}
                ELSE {})
      power == unary \cup
               UNION {{u \o <<"*", "*">> \o q :
                         u \in tab[j].unary, q \in tab[k - 1 - j].power} :
                      j \in 1..(k - 2)}
      term == power \cup
              UNION {{t \o <<o>> \o q : t \in tab[j].term,
                        q \in tab[k - 1 - j].power, o \in {"*", "/"}} :
                     j \in 1..(k - 2)}
      expr == term \cup
              UNION {{e \o <<o>> \o t : e \in tab[j].expr,
                        t \in tab[k - 1 - j].term, o \in {"+", "-"}} :
                     j \in 1..(k - 2)}
  IN  [unary |-> unary, power |-> power, term |-> term, expr |-> expr]

RECURSIVE GrammarTable(_, _, _)
GrammarTable(tab, k, lits) ==
  IF k > MaxToks THEN tab
  ELSE GrammarTable(Append(tab, GrammarRow(tab, k, lits)), k + 1, lits)

Expressions(lits) ==
  LET tab == GrammarTable(<<>>, 1, lits)
  IN  UNION {tab[k].expr : k \in 1..MaxToks}

Buffers == Strings(MaxLen) \cup Expressions(Literals)

\* the buffers termination is checked on
FairBuffers == Strings(FairLen) \cup Expressions({<<"2">>})

(***************************************************************************)
(* State.                                                                  *)
(***************************************************************************)
VARIABLES
  src,      \* the buffer (S.src, S.len = Len(src))
  pos,      \* S.pos
  idx0,     \* S.idx0
  err_pos,  \* S.err_pos
  cur,      \* S.cur
  lpc,      \* where the lexer is: "idle", "skip" or "comment"
  stack,    \* the call stack, eval_buffer's frame first
  ret,      \* the value the last return handed back
  result,   \* the EvalResult
  toks,     \* history: the tokens next_token has produced
  fault     \* history: the first fault met while no error was latched

vars == <<src, pos, idx0, err_pos, cur, lpc, stack, ret, result, toks, fault>>

NewFrame(fn) ==
  [fn |-> fn, pc |-> "entry", v |-> make_int(0), op |-> "T_EOF", slash_pos |-> 0]

NoFault == [kind |-> "none", pos |-> 0, type |-> "T_EOF"]

\* eval_buffer entered, the Scanner set up
Init ==
  /\ src \in Buffers
  /\ pos = 1
  /\ idx0 = 0
  /\ err_pos = 0
  /\ cur = ZeroToken
  /\ lpc = "idle"
  /\ stack = <<NewFrame("eval_buffer")>>
  /\ ret = make_int(0)
  /\ result = [ok |-> FALSE, v |-> make_int(0), err_pos |-> 0]
  /\ toks = <<>>
  /\ fault = NoFault

Top == stack[Len(stack)]
Done == stack = <<>>

(***************************************************************************)
(* The lexer: skip_ws_and_comments one iteration at a time, then the rest  *)
(* of next_token, which hands the token to advance.                        *)
(***************************************************************************)
AtSpace == idx0 < Len(src) /\ IsSpace(src[idx0 + 1])
AtHash == idx0 < Len(src) /\ src[idx0 + 1] = "#"
InComment == idx0 < Len(src) /\ src[idx0 + 1] # "\n"

\* SkipWs with a newline left out of the count of positions
SkipWs_m ==
  /\ lpc = "skip" /\ AtSpace
  /\ idx0' = idx0 + 1
  /\ pos' = IF src[idx0 + 1] = "\n" THEN pos ELSE pos + 1
  /\ UNCHANGED <<src, err_pos, cur, lpc, stack, ret, result, toks, fault>>

SkipWs ==
  /\ lpc = "skip" /\ AtSpace
  /\ idx0' = idx0 + 1
  /\ pos' = pos + 1
  /\ UNCHANGED <<src, err_pos, cur, lpc, stack, ret, result, toks, fault>>

EnterComment ==
  /\ lpc = "skip" /\ ~AtSpace /\ AtHash
  /\ lpc' = "comment"
  /\ UNCHANGED <<src, pos, idx0, err_pos, cur, stack, ret, result, toks, fault>>

\* SkipComment without its idx0++ and pos++
SkipComment_m ==
  /\ lpc = "comment" /\ InComment
  /\ UNCHANGED vars

SkipComment ==
  /\ lpc = "comment" /\ InComment
  /\ idx0' = idx0 + 1
  /\ pos' = pos + 1
  /\ UNCHANGED <<src, err_pos, cur, lpc, stack, ret, result, toks, fault>>

LeaveComment ==
  /\ lpc = "comment" /\ ~InComment
  /\ lpc' = "skip"
  /\ UNCHANGED <<src, pos, idx0, err_pos, cur, stack, ret, result, toks, fault>>

NextToken ==
  /\ lpc = "skip" /\ ~AtSpace /\ ~AtHash
  /\ LET r == next_token(src, idx0, pos)
     IN  /\ cur' = r.tok
         /\ idx0' = r.idx0
         /\ pos' = r.pos
         /\ toks' = Append(toks, r.tok)
  /\ lpc' = "idle"
  /\ UNCHANGED <<src, err_pos, stack, ret, result, fault>>

(***************************************************************************)
(* The parser.  A frame is at pc "entry" when its function is called; a    *)
(* call saves the caller's continuation in its frame and pushes the        *)
(* callee's; a return pops the frame and leaves the value in ret.          *)
(***************************************************************************)
At(fn, l) == lpc = "idle" /\ ~Done /\ Top.fn = fn /\ Top.pc = l

SetTop(f) == [stack EXCEPT ![Len(stack)] = f]
Goto(l) == stack' = SetTop([Top EXCEPT !.pc = l])
Call(fn, l) == stack' = Append(SetTop([Top EXCEPT !.pc = l]), NewFrame(fn))
Return(val) == stack' = SubSeq(stack, 1, Len(stack) - 1) /\ ret' = val

\* the variables no step of the parser writes
lexVars == <<src, pos, idx0, cur, toks>>

IsAddOp(t) == t \in {"T_PLUS", "T_MINUS"}
IsMulOp(t) == t \in {"T_STAR", "T_SLASH"}

\* the test of a while loop of parse_expr or parse_term with v in hand: the
\* operator is read and advance called, or v is returned
WhileOp(isop, v) ==
  IF isop
  THEN /\ stack' = SetTop([Top EXCEPT
                   !.v = v, !.op = cur.type, !.pc = "rhs",
                   !.slash_pos = IF Top.fn = "parse_term" THEN cur.start_pos
                                                          ELSE @])
       /\ lpc' = "skip"
       /\ ret' = ret
  ELSE /\ Return(v)
       /\ lpc' = lpc

---------------------------------------------------------------------------
\* parse_expr: Value v = parse_term(S);
ExprEntry ==
  /\ At("parse_expr", "entry")
  /\ Call("parse_term", "first")
  /\ UNCHANGED <<lexVars, err_pos, lpc, ret, result, fault>>

\* v is assigned and the while test made for the first time
ExprFirst ==
  /\ At("parse_expr", "first")
  /\ WhileOp(IsAddOp(cur.type), ret)
  /\ UNCHANGED <<lexVars, err_pos, result, fault>>

\* Value r = parse_term(S);
ExprRhs ==
  /\ At("parse_expr", "rhs")
  /\ Call("parse_term", "apply")
  /\ UNCHANGED <<lexVars, err_pos, lpc, ret, result, fault>>

\* if(S->err_pos) return make_int(0); v = v_add(v,r) or v_sub(v,r); the test
ExprApply ==
  /\ At("parse_expr", "apply")
  /\ IF err_pos # 0
     THEN Return(make_int(0)) /\ lpc' = lpc
     ELSE WhileOp(IsAddOp(cur.type),
                  IF Top.op = "T_PLUS" THEN v_add(Top.v, ret)
                                       ELSE v_sub(Top.v, ret))
  /\ UNCHANGED <<lexVars, err_pos, result, fault>>

---------------------------------------------------------------------------
\* parse_term: Value v = parse_power(S);
TermEntry ==
  /\ At("parse_term", "entry")
  /\ Call("parse_power", "first")
  /\ UNCHANGED <<lexVars, err_pos, lpc, ret, result, fault>>

TermFirst ==
  /\ At("parse_term", "first")
  /\ WhileOp(IsMulOp(cur.type), ret)
  /\ UNCHANGED <<lexVars, err_pos, result, fault>>

\* Value r = parse_power(S);
TermRhs ==
  /\ At("parse_term", "rhs")
  /\ Call("parse_power", "apply")
  /\ UNCHANGED <<lexVars, err_pos, lpc, ret, result, fault>>

\* if(S->err_pos) return make_int(0); v = v_mul(v,r) or v_div(...);
\* if(S->err_pos) return make_int(0); the test
TermApply ==
  /\ At("parse_term", "apply")
  /\ IF err_pos # 0
     THEN /\ Return(make_int(0)) /\ lpc' = lpc
          /\ UNCHANGED <<err_pos, fault>>
     ELSE IF Top.op = "T_STAR"
     THEN /\ WhileOp(IsMulOp(cur.type), v_mul(Top.v, ret))
          /\ UNCHANGED <<err_pos, fault>>
     ELSE LET q == v_div(Top.v, ret, err_pos, Top.slash_pos)
          IN  /\ err_pos' = q.err_pos
              /\ fault' = IF is_zero(ret)
                          THEN [kind |-> "div0", pos |-> Top.slash_pos,
                                type |-> Top.op]
                          ELSE fault
              /\ IF q.err_pos # 0
                 THEN Return(make_int(0)) /\ lpc' = lpc
                 ELSE WhileOp(IsMulOp(cur.type), q.v)
  /\ UNCHANGED <<lexVars, result>>

---------------------------------------------------------------------------
\* parse_power: Value left = parse_unary(S);
PowerEntry ==
  /\ At("parse_power", "entry")
  /\ Call("parse_unary", "first")
  /\ UNCHANGED <<lexVars, err_pos, lpc, ret, result, fault>>

\* if(S->cur.type==T_POW){ advance(S); ... } return left;
PowerFirst ==
  /\ At("parse_power", "first")
  /\ IF cur.type = "T_POW"
     THEN /\ stack' = SetTop([Top EXCEPT !.v = ret, !.pc = "rhs"])
          /\ lpc' = "skip"
          /\ ret' = ret
     ELSE /\ Return(ret)
          /\ lpc' = lpc
  /\ UNCHANGED <<lexVars, err_pos, result, fault>>

\* PowerRhs with parse_unary called for the right operand
PowerRhs_m ==
  /\ At("parse_power", "rhs")
  /\ Call("parse_unary", "apply")
  /\ UNCHANGED <<lexVars, err_pos, lpc, ret, result, fault>>

\* Value right = parse_power(S);
PowerRhs ==
  /\ At("parse_power", "rhs")
  /\ Call("parse_power", "apply")
  /\ UNCHANGED <<lexVars, err_pos, lpc, ret, result, fault>>

\* left = v_pow(left,right); return left;
PowerApply ==
  /\ At("parse_power", "apply")
  /\ Return(v_pow(Top.v, ret))
  /\ UNCHANGED <<lexVars, err_pos, lpc, result, fault>>

---------------------------------------------------------------------------
\* parse_unary: a sign is read and advance called, or parse_primary called
UnaryEntry ==
  /\ At("parse_unary", "entry")
  /\ IF cur.type = "T_PLUS" THEN Goto("plus") /\ lpc' = "skip"
     ELSE IF cur.type = "T_MINUS" THEN Goto("minus") /\ lpc' = "skip"
     ELSE Call("parse_primary", "return") /\ lpc' = lpc
  /\ UNCHANGED <<lexVars, err_pos, ret, result, fault>>

\* return parse_unary(S);
UnaryPlus ==
  /\ At("parse_unary", "plus")
  /\ Call("parse_unary", "return")
  /\ UNCHANGED <<lexVars, err_pos, lpc, ret, result, fault>>

\* Value v=parse_unary(S);
UnaryMinus ==
  /\ At("parse_unary", "minus")
  /\ Call("parse_unary", "negate")
  /\ UNCHANGED <<lexVars, err_pos, lpc, ret, result, fault>>

\* the value of the callee is returned as it is
UnaryReturn ==
  /\ At("parse_unary", "return")
  /\ Return(ret)
  /\ UNCHANGED <<lexVars, err_pos, lpc, result, fault>>

\* return v.is_float? make_double(-v.d) : make_int(-v.i);
UnaryNegate ==
  /\ At("parse_unary", "negate")
  /\ Return(Negate(ret))
  /\ UNCHANGED <<lexVars, err_pos, lpc, result, fault>>

---------------------------------------------------------------------------
\* UnexpectedPos with the scanner's position for the token's
UnexpectedPos_m == pos

\* the position parse_primary reports a token that starts no primary at
UnexpectedPos == cur.start_pos

\* MissingParenPos with the scanner's position in both cases
MissingParenPos_m == pos

\* the position parse_primary reports a missing ")" at
MissingParenPos == IF cur.type = "T_EOF" THEN pos ELSE cur.start_pos

\* parse_primary: a number, a "(" or an unexpected token; advance is called
\* in all three cases
PrimaryEntry ==
  /\ At("parse_primary", "entry")
  /\ lpc' = "skip"
  /\ IF cur.type = "T_NUM"
     THEN /\ stack' = SetTop([Top EXCEPT !.pc = "return",
                   !.v = IF cur.is_float THEN make_double(cur.d)
                                         ELSE make_int(cur.i)])
          /\ UNCHANGED <<err_pos, fault>>
     ELSE IF cur.type = "T_LPAREN"
     THEN /\ Goto("inside")
          /\ UNCHANGED <<err_pos, fault>>
     ELSE /\ stack' = SetTop([Top EXCEPT !.pc = "return", !.v = make_int(0)])
          /\ err_pos' = set_error(err_pos, UnexpectedPos)
          /\ fault' = IF err_pos = 0
                      THEN [kind |-> "primary", pos |-> cur.start_pos,
                            type |-> cur.type]
                      ELSE fault
  /\ UNCHANGED <<lexVars, ret, result>>

\* Value inside = parse_expr(S);
PrimaryInside ==
  /\ At("parse_primary", "inside")
  /\ Call("parse_expr", "close")
  /\ UNCHANGED <<lexVars, err_pos, lpc, ret, result, fault>>

\* if(S->err_pos) return make_int(0); the test for ")"; advance(S);
PrimaryClose ==
  /\ At("parse_primary", "close")
  /\ IF err_pos # 0
     THEN /\ Return(make_int(0)) /\ lpc' = lpc
          /\ UNCHANGED <<err_pos, fault>>
     ELSE IF cur.type # "T_RPAREN"
     THEN /\ err_pos' = set_error(err_pos, MissingParenPos)
          /\ fault' = [kind |-> "rparen", pos |-> cur.start_pos,
                       type |-> cur.type]
          /\ Return(make_int(0)) /\ lpc' = lpc
     ELSE /\ stack' = SetTop([Top EXCEPT !.pc = "return", !.v = ret])
          /\ lpc' = "skip"
          /\ ret' = ret
          /\ UNCHANGED <<err_pos, fault>>
  /\ UNCHANGED <<lexVars, result>>

\* return v; return inside; return make_int(0);
PrimaryReturn ==
  /\ At("parse_primary", "return")
  /\ Return(Top.v)
  /\ UNCHANGED <<lexVars, err_pos, lpc, result, fault>>

---------------------------------------------------------------------------
\* eval_buffer: advance(&S);
EvalStart ==
  /\ At("eval_buffer", "entry")
  /\ Goto("parse")
  /\ lpc' = "skip"
  /\ UNCHANGED <<lexVars, err_pos, ret, result, fault>>

\* Value v = parse_expr(&S);
EvalParse ==
  /\ At("eval_buffer", "parse")
  /\ Call("parse_expr", "finish")
  /\ UNCHANGED <<lexVars, err_pos, lpc, ret, result, fault>>

\* EvalFinish without the test for a token after the expression
EvalFinish_m ==
  /\ At("eval_buffer", "finish")
  /\ stack' = <<>>
  /\ IF err_pos # 0
     THEN result' = [ok |-> FALSE, v |-> make_int(0), err_pos |-> err_pos]
     ELSE result' = [ok |-> TRUE, v |-> ret, err_pos |-> 0]
  /\ UNCHANGED <<lexVars, lpc, ret, err_pos, fault>>

\* the three returns of eval_buffer
EvalFinish ==
  /\ At("eval_buffer", "finish")
  /\ stack' = <<>>
  /\ IF err_pos # 0
     THEN /\ result' = [ok |-> FALSE, v |-> make_int(0), err_pos |-> err_pos]
          /\ UNCHANGED <<err_pos, fault>>
     ELSE IF cur.type # "T_EOF"
     THEN /\ err_pos' = set_error(err_pos, cur.start_pos)
          /\ result' = [ok |-> FALSE, v |-> make_int(0), err_pos |-> err_pos']
          /\ fault' = [kind |-> "trailing", pos |-> cur.start_pos,
                       type |-> cur.type]
     ELSE /\ result' = [ok |-> TRUE, v |-> ret, err_pos |-> 0]
          /\ UNCHANGED <<err_pos, fault>>
  /\ UNCHANGED <<lexVars, lpc, ret>>

---------------------------------------------------------------------------
Next ==
  \/ SkipWs \/ EnterComment \/ SkipComment \/ LeaveComment \/ NextToken
  \/ EvalStart \/ EvalParse \/ EvalFinish
  \/ ExprEntry \/ ExprFirst \/ ExprRhs \/ ExprApply
  \/ TermEntry \/ TermFirst \/ TermRhs \/ TermApply
  \/ PowerEntry \/ PowerFirst \/ PowerRhs \/ PowerApply
  \/ UnaryEntry \/ UnaryPlus \/ UnaryMinus \/ UnaryReturn \/ UnaryNegate
  \/ PrimaryEntry \/ PrimaryInside \/ PrimaryClose \/ PrimaryReturn

Spec == Init /\ [][Next]_vars

\* eval_buffer runs to its end: no step of it waits on anything
FairInit == Init /\ src \in FairBuffers
FairSpec == FairInit /\ [][Next]_vars /\ WF_vars(Next)

(***************************************************************************)
(* A reference evaluator of the grammar, by splitting the token sequence   *)
(* at an operator outside all parentheses: the last binary "+" or "-" for  *)
(* expr, the last "*" or "/" for term, the first "**" for power.           *)
(***************************************************************************)
\* skip_ws_and_comments as a function: the index it leaves idx0 at
RECURSIVE SkipAll(_, _, _)
SkipAll(s, i0, comment) ==
  IF i0 >= Len(s) THEN i0
  ELSE IF comment
  THEN IF s[i0 + 1] # "\n" THEN SkipAll(s, i0 + 1, TRUE)
                            ELSE SkipAll(s, i0, FALSE)
  ELSE IF IsSpace(s[i0 + 1]) THEN SkipAll(s, i0 + 1, FALSE)
  ELSE IF s[i0 + 1] = "#" THEN SkipAll(s, i0 + 1, TRUE)
  ELSE i0

\* the tokens of the buffer s from index i0 on, without the end-of-input
\* token; an invalid token that consumes nothing ends the sequence
RECURSIVE AllTokens(_, _)
AllTokens(s, i0) ==
  LET j == SkipAll(s, i0, FALSE)
      r == next_token(s, j, j + 1)
  IN  IF r.tok.type = "T_EOF" THEN <<>>
      ELSE IF r.idx0 = j THEN <<r.tok>>
      ELSE <<r.tok>> \o AllTokens(s, r.idx0)

\* the tokens of the buffer
Body == AllTokens(src, 0)

RECURSIVE Depth(_, _)
\* the number of parentheses open before ts[k]
Depth(ts, k) ==
  IF k <= 1 THEN 0
  ELSE Depth(ts, k - 1)
       + (IF ts[k - 1].type = "T_LPAREN" THEN 1
          ELSE IF ts[k - 1].type = "T_RPAREN" THEN -1 ELSE 0)

SetMax(S) == CHOOSE x \in S : \A y \in S : y <= x
SetMin(S) == CHOOSE x \in S : \A y \in S : x <= y

RefBad == [st |-> "bad", v |-> make_int(0), pos |-> 0]
RefOk(v) == [st |-> "ok", v |-> v, pos |-> 0]

\* the value of l op r, op the token between them
RefApply(op, l, r) ==
  IF l.st = "bad" \/ r.st = "bad" THEN RefBad
  ELSE IF l.st = "div0" THEN l
  ELSE IF r.st = "div0" THEN r
  ELSE IF op.type = "T_PLUS" THEN RefOk(v_add(l.v, r.v))
  ELSE IF op.type = "T_MINUS" THEN RefOk(v_sub(l.v, r.v))
  ELSE IF op.type = "T_STAR" THEN RefOk(v_mul(l.v, r.v))
  ELSE IF op.type = "T_POW" THEN RefOk(v_pow(l.v, r.v))
  ELSE IF is_zero(r.v) THEN [st |-> "div0", v |-> make_int(0), pos |-> op.start_pos]
  ELSE RefOk(make_double(DDiv(AsDouble(l.v), AsDouble(r.v))))

Before(ts, k) == SubSeq(ts, 1, k - 1)
After(ts, k) == SubSeq(ts, k + 1, Len(ts))

RECURSIVE RefExpr(_), RefTerm(_), RefPower(_), RefUnary(_), RefPrimary(_)
RefExpr(ts) ==
  LET ks == {k \in 2..Len(ts) : /\ ts[k].type \in {"T_PLUS", "T_MINUS"}
                                /\ ts[k - 1].type \in {"T_NUM", "T_RPAREN"}
                                /\ Depth(ts, k) = 0}
  IN  IF ks = {} THEN RefTerm(ts)
      ELSE LET k == SetMax(ks)
           IN  RefApply(ts[k], RefExpr(Before(ts, k)), RefTerm(After(ts, k)))
RefTerm(ts) ==
  LET ks == {k \in 1..Len(ts) : /\ ts[k].type \in {"T_STAR", "T_SLASH"}
                                /\ Depth(ts, k) = 0}
  IN  IF ks = {} THEN RefPower(ts)
      ELSE LET k == SetMax(ks)
           IN  RefApply(ts[k], RefTerm(Before(ts, k)), RefPower(After(ts, k)))
RefPower(ts) ==
  LET ks == {k \in 1..Len(ts) : ts[k].type = "T_POW" /\ Depth(ts, k) = 0}
  IN  IF ks = {} THEN RefUnary(ts)
      ELSE LET k == SetMin(ks)
           IN  RefApply(ts[k], RefUnary(Before(ts, k)), RefPower(After(ts, k)))
RefUnary(ts) ==
  IF ts = <<>> THEN RefBad
  ELSE IF ts[1].type = "T_PLUS" THEN RefUnary(Tail(ts))
  ELSE IF ts[1].type = "T_MINUS"
  THEN LET u == RefUnary(Tail(ts))
       IN  IF u.st = "ok" THEN RefOk(Negate(u.v)) ELSE u
  ELSE RefPrimary(ts)
RefPrimary(ts) ==
  IF Len(ts) = 1 /\ ts[1].type = "T_NUM"
  THEN RefOk(IF ts[1].is_float THEN make_double(ts[1].d) ELSE make_int(ts[1].i))
  ELSE IF /\ Len(ts) >= 3
          /\ ts[1].type = "T_LPAREN" /\ ts[Len(ts)].type = "T_RPAREN"
          /\ \A k \in 2..Len(ts) : Depth(ts, k) >= 1
  THEN RefExpr(SubSeq(ts, 2, Len(ts) - 1))
  ELSE RefBad

\* what the reference evaluator makes of the buffer
Reference == RefExpr(Body)

\* every literal is an integer and neither "/" nor "**" is applied
IntOnly(ts) ==
  \A k \in 1..Len(ts) : /\ ts[k].type \notin {"T_SLASH", "T_POW"}
                        /\ ts[k].type = "T_NUM" => ~ts[k].is_float

\* how many tokens of ts have type t
Count(ts, t) == Cardinality({k \in 1..Len(ts) : ts[k].type = t})

\* s holds nothing but white space and comment lines, from index k on
RECURSIVE Blank(_, _, _)
Blank(s, k, comment) ==
  IF k > Len(s) THEN TRUE
  ELSE IF comment THEN Blank(s, k + 1, s[k] # "\n")
  ELSE IF IsSpace(s[k]) THEN Blank(s, k + 1, FALSE)
  ELSE IF s[k] = "#" THEN Blank(s, k + 1, TRUE)
  ELSE FALSE

\* the character at position p of the buffer starts a token of type t
StartsToken(p, t) ==
  IF t = "T_EOF" THEN p = Len(src) + 1
  ELSE /\ p \in 1..Len(src)
       /\ CASE t = "T_NUM" -> src[p] \in Digit \cup {"."}
            [] t = "T_PLUS" -> src[p] = "+"
            [] t = "T_MINUS" -> src[p] = "-"
            [] t = "T_STAR" -> src[p] = "*"
            [] t = "T_SLASH" -> src[p] = "/"
            [] t = "T_POW" -> src[p] = "*" /\ p < Len(src) /\ src[p + 1] = "*"
            [] t = "T_LPAREN" -> src[p] = "("
            [] t = "T_RPAREN" -> src[p] = ")"
            [] t = "T_INVALID" ->
                 src[p] \notin Digit \cup {"+", "-", "*", "/", "(", ")"}

Failure(p) == [ok |-> FALSE, v |-> make_int(0), err_pos |-> p]

(***************************************************************************)
(* The claims.                                                             *)
(***************************************************************************)
\* C1: when parse_term divides by a zero right operand (integer 0 or a float
\* of magnitude 0) with no error latched, eval_buffer fails at the start
\* position of that "/" token; where the buffer is an expression of the
\* grammar, that is the "/" the reference evaluator finds to divide by zero
\* first.
DivByZeroAtSlash ==
  Done =>
    /\ fault.kind = "div0" =>
         /\ result = Failure(fault.pos)
         /\ fault.type = "T_SLASH"
         /\ StartsToken(fault.pos, "T_SLASH")
         /\ Reference.st # "bad" =>
              Reference.st = "div0" /\ Reference.pos = fault.pos
    /\ Reference.st = "div0" =>
         fault.kind = "div0" /\ result = Failure(Reference.pos)

\* a division by the float literal .0 that sits behind the "/" has failed
DivByZeroSeen ==
  /\ Done /\ fault.kind = "div0" /\ result.err_pos = fault.pos
  /\ \E k \in 2..Len(toks) : /\ toks[k].type = "T_NUM" /\ toks[k].is_float
                             /\ toks[k - 1].type = "T_SLASH"
                             /\ toks[k - 1].start_pos = fault.pos

\* C2: on an expression of the grammar in which no division has a zero right
\* operand, eval_buffer succeeds with the value and the kind of the reference
\* evaluator; the result is an integer exactly when every literal is an
\* integer and neither "/" nor "**" is applied.
MatchesReference ==
  Done /\ Reference.st = "ok" =>
    /\ result = [ok |-> TRUE, v |-> Reference.v, err_pos |-> 0]
    /\ result.v.is_float = ~IntOnly(Body)

\* 2 ** 2 ** 0 has been evaluated to 2 ** 1 = 2, not to 4 ** 0 = 1
RightAssocSeen ==
  /\ Done /\ result.ok
  /\ src = <<"2", "*", "*", "2", "*", "*", "0">>
  /\ result.v = make_double(<<2, 1>>)

\* C3: when a "(" and its sub-expression have been parsed with no error
\* latched and the token after the sub-expression is not ")", eval_buffer
\* fails at the start position of that token, which is the length of the
\* buffer plus one when the input ran out.
MissingParenAtToken ==
  Done /\ fault.kind = "rparen" =>
    /\ result = Failure(fault.pos)
    /\ fault.type # "T_RPAREN"
    /\ StartsToken(fault.pos, fault.type)

\* a "(" left open at the end of the input has failed
MissingParenSeen ==
  /\ Done /\ fault.kind = "rparen" /\ fault.type = "T_EOF"
  /\ result.err_pos = Len(src) + 1
  /\ Count(toks, "T_LPAREN") > 0

\* C4: when parse_primary is entered with no error latched and the current
\* token is neither a number nor "(", eval_buffer fails at that token's start
\* position; a buffer of white space and comment lines only fails at its
\* length plus one.
UnexpectedAtToken ==
  Done =>
    /\ fault.kind = "primary" =>
         /\ result = Failure(fault.pos)
         /\ fault.type \notin {"T_NUM", "T_LPAREN"}
         /\ StartsToken(fault.pos, fault.type)
    /\ Blank(src, 1, FALSE) =>
         fault.kind = "primary" /\ result = Failure(Len(src) + 1)

\* a buffer that holds one comment line and nothing else has failed
CommentOnlySeen ==
  /\ Done /\ fault.kind = "primary" /\ fault.type = "T_EOF"
  /\ Len(src) >= 2 /\ src[1] = "#" /\ src[Len(src)] = "\n"
  /\ result.err_pos = Len(src) + 1

\* C5: when parse_expr returns to eval_buffer with no error latched and the
\* current token is not end-of-input, eval_buffer fails at the start position
\* of that token; it succeeds only when the current token is end-of-input and
\* no error is latched.
TrailingAtToken ==
  Done =>
    /\ fault.kind = "trailing" =>
         /\ result = Failure(fault.pos)
         /\ fault.type # "T_EOF"
         /\ StartsToken(fault.pos, fault.type)
    /\ fault.kind = "none" /\ cur.type # "T_EOF" => ~result.ok
    /\ result.ok => cur.type = "T_EOF" /\ err_pos = 0 /\ fault.kind = "none"

\* an expression followed by one more token has failed at that token
TrailingSeen ==
  /\ Done /\ fault.kind = "trailing" /\ result.err_pos = fault.pos
  /\ Len(toks) >= 2 /\ toks[1].type = "T_NUM"

\* C6: once S.err_pos is not zero it keeps its value in every later state,
\* whatever fault is met afterwards, and the failure eval_buffer returns
\* holds that value.
ErrorLatched ==
  [][/\ err_pos # 0 => err_pos' = err_pos
     /\ Done' /\ ~Done => /\ result'.ok = (err_pos' = 0)
                          /\ result'.err_pos = err_pos']_vars

\* parse_primary has met a second unexpected token with an error latched
SecondFaultSeen ==
  /\ ~Done /\ Top.fn = "parse_primary" /\ Top.pc = "return" /\ lpc = "skip"
  /\ cur.type \in {"T_INVALID", "T_EOF"}
  /\ err_pos # 0 /\ err_pos < cur.start_pos

\* C7: eval_buffer terminates on every buffer.
Terminates == <>Done

\* eval_buffer has returned on a buffer whose "." made next_token produce the
\* same invalid token twice
StuckTokenSeen ==
  /\ Done
  /\ Len(toks) >= 2 /\ toks[1].type = "T_INVALID" /\ toks[2] = toks[1]

\* C8: the 1-based position is the 0-based index plus one in every state, every
\* token starts at the position of its first character, and the end-of-input
\* token at the length of the buffer plus one.
PositionsCount ==
  /\ pos = idx0 + 1
  /\ idx0 <= Len(src)
  /\ \A k \in 1..Len(toks) : StartsToken(toks[k].start_pos, toks[k].type)

\* a number on the line after a comment line has been scanned
SecondLineSeen ==
  /\ Len(src) >= 1 /\ src[1] = "#"
  /\ \E k \in 1..Len(toks) :
        /\ toks[k].type = "T_NUM"
        /\ toks[k].start_pos > 2
        /\ src[toks[k].start_pos - 1] = "\n"

\* C9: every call of next_token that produces an invalid token advances the
\* scan cursor by at least one character.
InvalidAdvances ==
  [][NextToken /\ cur'.type = "T_INVALID" => idx0' > idx0]_vars

\* C10: once an error position is latched, no rule applies a further
\* arithmetic operation and no rule parses a further operand.
NoWorkAfterLatch ==
  [][err_pos # 0 =>
       ~(PowerApply \/ UnaryNegate \/ ExprRhs \/ TermRhs \/ PowerRhs)]_vars
=============================================================================
